---- MODULE Spec2Model ----
(***************************************************************************)
(* Model of send-order-email-lambda/lambda_function.py: the handler that   *)
(* validates an order event, renders an HTML and a plain-text              *)
(* confirmation and sends both through SES.                                *)
(*                                                                         *)
(* Python values are records tagged by type.  A str is a sequence of       *)
(* tokens: every character that comes from the payload is a token of its   *)
(* own, text that the program itself writes (template literals, month      *)
(* names) may be one token of several characters.  A dict is a function    *)
(* whose DOMAIN is the set of its keys, so an absent key and a key bound   *)
(* to None are different things, as in Python.                             *)
(***************************************************************************)
EXTENDS Integers, Sequences, FiniteSets, TLC

(* ------------------------------ values ------------------------------- *)

None == [t |-> "none"]
StrV(s) == [t |-> "str", s |-> s]
IntV(n) == [t |-> "int", n |-> n]
\* a float with at most three decimals, held in thousandths: FloatV(99990) is 99.99
FloatV(m) == [t |-> "float", m |-> m]

\* Python truthiness of a value (the test made by `not x` and `if x`)
Truthy(v) ==
    CASE v.t = "none" -> FALSE
      [] v.t = "str" -> v.s # <<>>
      [] v.t = "int" -> v.n # 0
      [] v.t = "float" -> v.m # 0

\* dict.get(key, default); dict.get(key) is Get(d, key, None)
Get(d, key, default) == IF key \in DOMAIN d THEN d[key] ELSE default

DigitChars == <<"0", "1", "2", "3", "4", "5", "6", "7", "8", "9">>

IsDigit(c) == \E i \in 1..Len(DigitChars) : DigitChars[i] = c

DigitVal(c) == (CHOOSE i \in 1..Len(DigitChars) : DigitChars[i] = c) - 1

RECURSIVE IntToStr(_)
\* str(n) of an int n >= 0, one token per digit
IntToStr(n) ==
    IF n < 10 THEN <<DigitChars[n + 1]>>
    ELSE IntToStr(n \div 10) \o <<DigitChars[(n % 10) + 1]>>

RECURSIVE StrToInt(_)
\* the number a sequence of digit characters denotes
StrToInt(s) ==
    IF s = <<>> THEN 0
    ELSE 10 * StrToInt(SubSeq(s, 1, Len(s) - 1)) + DigitVal(s[Len(s)])

AllDigits(s) == \A i \in 1..Len(s) : IsDigit(s[i])

\* str(v) and the f-string interpolation {v}, for the values a payload field
\* holds here (a float is only ever interpolated through format_price)
PyStr(v) ==
    CASE v.t = "none" -> <<"None">>
      [] v.t = "str" -> v.s
      [] v.t = "int" -> IntToStr(v.n)

RECURSIVE Replace(_, _, _)
\* str.replace(old, new) for a one-character old: every occurrence, left to right
Replace(s, old, new) ==
    IF s = <<>> THEN <<>>
    ELSE (IF Head(s) = old THEN new ELSE <<Head(s)>>) \o Replace(Tail(s), old, new)

(* ---------------------------- escape_html ---------------------------- *)

escape_html(text) ==
    IF ~Truthy(text) THEN <<>>
    ELSE Replace(Replace(Replace(Replace(Replace(PyStr(text),
            "&", <<"&", "a", "m", "p", ";">>),
            "<", <<"&", "l", "t", ";">>),
            ">", <<"&", "g", "t", ";">>),
            "\"", <<"&", "q", "u", "o", "t", ";">>),
            "'", <<"&", "#", "3", "9", ";">>)

(* ---------------------------- format_price --------------------------- *)

\* f'{x:.2f}' of x = m/1000, x >= 0.  The third decimal is rounded to the
\* nearest cent; the payloads drawn below hold no float whose third decimal
\* is 5, where the binary value of the float decides the direction.
Fixed2(m) ==
    LET cents == (m + 5) \div 10
    IN  IntToStr(cents \div 100) \o <<".">>
          \o <<DigitChars[((cents \div 10) % 10) + 1], DigitChars[(cents % 10) + 1]>>

\* float(s) of a str: [ok, m].  Decimal literals "ddd" and "ddd.ddd" with at
\* most three decimals are parsed; any other text drawn below (letters, the
\* empty string) makes float() raise ValueError.
ParseFloat(s) ==
    LET dots == {i \in 1..Len(s) : s[i] = "."}
    IN  IF dots = {} THEN
            IF s # <<>> /\ AllDigits(s)
            THEN [ok |-> TRUE, m |-> 1000 * StrToInt(s)]
            ELSE [ok |-> FALSE, m |-> 0]
        ELSE
            LET d == CHOOSE i \in dots : TRUE
                ip == SubSeq(s, 1, d - 1)
                fp == SubSeq(s, d + 1, Len(s))
                pad == fp \o SubSeq(<<"0", "0", "0">>, 1, 3 - Len(fp))
            IN  IF Cardinality(dots) = 1 /\ Len(fp) <= 3 /\ Len(ip) + Len(fp) > 0
                   /\ AllDigits(ip) /\ AllDigits(fp)
                THEN [ok |-> TRUE, m |-> 1000 * StrToInt(ip) + StrToInt(pad)]
                ELSE [ok |-> FALSE, m |-> 0]

format_price(price) ==
    CASE price.t = "none" -> <<"0", ".", "0", "0">>
      [] price.t = "str" ->
            LET p == ParseFloat(price.s)
            IN  IF p.ok THEN Fixed2(p.m) ELSE <<"0", ".", "0", "0">>
      [] price.t = "int" -> Fixed2(1000 * price.n)
      [] price.t = "float" -> Fixed2(price.m)

(* ---------------------------- format_date ---------------------------- *)

MonthNames ==
    <<"January", "February", "March", "April", "May", "June", "July",
      "August", "September", "October", "November", "December">>

IsLeap(y) == (y % 4 = 0 /\ y % 100 # 0) \/ y % 400 = 0

DaysInMonth(y, mo) ==
    IF mo = 2 THEN (IF IsLeap(y) THEN 29 ELSE 28)
    ELSE IF mo \in {4, 6, 9, 11} THEN 30 ELSE 31

\* a number below 100 as two digits (%d, %I, %M)
TwoDigits(n) == <<DigitChars[(n \div 10) + 1], DigitChars[(n % 10) + 1]>>

\* s[i..j] is all digits
DigitsAt(s, i, j) == j <= Len(s) /\ AllDigits(SubSeq(s, i, j))

\* "+HH:MM" or "-HH:MM" at s[i..i+5]
OffsetAt(s, i) ==
    /\ Len(s) = i + 5
    /\ s[i] \in {"+", "-"}
    /\ DigitsAt(s, i + 1, i + 2) /\ s[i + 3] = ":" /\ DigitsAt(s, i + 4, i + 5)
    /\ StrToInt(SubSeq(s, i + 1, i + 2)) <= 23
    /\ StrToInt(SubSeq(s, i + 4, i + 5)) <= 59

\* datetime.fromisoformat(s): [ok, y, mo, d, h, mi].  The forms parsed are
\* YYYY-MM-DD, YYYY-MM-DD?HH:MM and YYYY-MM-DD?HH:MM:SS (? any separator
\* character), the last two with an optional +HH:MM or -HH:MM offset; any
\* other text drawn below makes fromisoformat raise ValueError.
fromisoformat(s) ==
    LET bad == [ok |-> FALSE, y |-> 0, mo |-> 0, d |-> 0, h |-> 0, mi |-> 0]
        dateOk ==
            /\ Len(s) >= 10
            /\ DigitsAt(s, 1, 4) /\ s[5] = "-" /\ DigitsAt(s, 6, 7)
            /\ s[8] = "-" /\ DigitsAt(s, 9, 10)
        y == StrToInt(SubSeq(s, 1, 4))
        mo == StrToInt(SubSeq(s, 6, 7))
        d == StrToInt(SubSeq(s, 9, 10))
        rangeOk == y >= 1 /\ mo \in 1..12 /\ d >= 1 /\ d <= DaysInMonth(y, mo)
        hmOk ==
            /\ Len(s) >= 16
            /\ DigitsAt(s, 12, 13) /\ s[14] = ":" /\ DigitsAt(s, 15, 16)
            /\ StrToInt(SubSeq(s, 12, 13)) <= 23
            /\ StrToInt(SubSeq(s, 15, 16)) <= 59
        secOk ==
            /\ Len(s) >= 19
            /\ s[17] = ":" /\ DigitsAt(s, 18, 19)
            /\ StrToInt(SubSeq(s, 18, 19)) <= 59
        tailOk ==
            \/ Len(s) = 16
            \/ OffsetAt(s, 17)
            \/ secOk /\ (Len(s) = 19 \/ OffsetAt(s, 20))
    IN  IF ~dateOk THEN bad
        ELSE IF ~rangeOk THEN bad
        ELSE IF Len(s) = 10
             THEN [ok |-> TRUE, y |-> y, mo |-> mo, d |-> d, h |-> 0, mi |-> 0]
        ELSE IF hmOk /\ tailOk
             THEN [ok |-> TRUE, y |-> y, mo |-> mo, d |-> d,
                   h |-> StrToInt(SubSeq(s, 12, 13)), mi |-> StrToInt(SubSeq(s, 15, 16))]
        ELSE bad

\* dt.strftime('%B %d, %Y at %I:%M %p')
strftime(dt) ==
    LET h12 == IF dt.h % 12 = 0 THEN 12 ELSE dt.h % 12
    IN  <<MonthNames[dt.mo], " ">> \o TwoDigits(dt.d) \o <<", ">> \o IntToStr(dt.y)
          \o <<" at ">> \o TwoDigits(h12) \o <<":">> \o TwoDigits(dt.mi)
          \o <<" ", IF dt.h < 12 THEN "AM" ELSE "PM">>

format_date(date_string) ==
    IF ~Truthy(date_string) THEN <<"N/A">>
    ELSE IF date_string.t # "str" THEN PyStr(date_string)   \* .replace raises, caught
    ELSE LET dt == fromisoformat(Replace(date_string.s, "Z", <<"+", "0", "0", ":", "0", "0">>))
         IN  IF dt.ok THEN strftime(dt) ELSE PyStr(date_string)

(* ----------------------------- rendering ----------------------------- *)

\* A rendered document is the sequence of its lines, a line the sequence of
\* its segments.  A segment is literal template text (k = "tpl") or the
\* text an interpolation {...} inserted (k = "val", f the payload field it
\* shows); the str the program builds is the segments' text joined, lines
\* separated by newlines.  Leading indentation of the template lines and the
\* non-ASCII pictographs in them are not represented.
Tpl(lit) == [k |-> "tpl", f |-> "", s |-> <<lit>>]
Val(field, text) == [k |-> "val", f |-> field, s |-> text]

\* the static style sheet, as one literal
get_email_styles == "body { ... } .container { ... } .header { ... } .button { ... }"

generate_html_email(ev) ==
    LET order_id == Get(ev, "orderId", StrV(<<"N/A">>))
        customer_name == escape_html(Get(ev, "customerName", StrV(<<"Customer">>)))
        customer_email == escape_html(Get(ev, "customerEmail", StrV(<<>>)))
        product_name == escape_html(Get(ev, "productName", StrV(<<"Product">>)))
        product_description == escape_html(Get(ev, "productDescription", StrV(<<>>)))
        quantity == Get(ev, "quantity", IntV(1))
        unit_price == Get(ev, "unitPrice", None)
        total_price == Get(ev, "totalPrice", IntV(0))
        order_status == Get(ev, "orderStatus", StrV(<<"CONFIRMED">>))
        order_date == format_date(Get(ev, "orderDate", None))
    IN  <<
        <<>>,
        <<Tpl("<!DOCTYPE html>")>>,
        <<Tpl("<html lang=\"en\">")>>,
        <<Tpl("<head>")>>,
        <<Tpl("<meta charset=\"UTF-8\">")>>,
        <<Tpl("<meta name=\"viewport\" content=\"width=device-width, initial-scale=1.0\">")>>,
        <<Tpl("<title>Order Confirmation</title>")>>,
        <<Tpl("<style>")>>,
        <<Tpl(get_email_styles)>>,
        <<Tpl("</style>")>>,
        <<Tpl("</head>")>>,
        <<Tpl("<body>")>>,
        <<Tpl("<div class=\"container\">")>>,
        <<Tpl("<!-- Header -->")>>,
        <<Tpl("<div class=\"header\">")>>,
        <<Tpl("<h1> Order Confirmed!</h1>")>>,
        <<Tpl("<p>Thank you for your purchase</p>")>>,
        <<Tpl("</div>")>>,
        <<>>,
        <<Tpl("<!-- Content -->")>>,
        <<Tpl("<div class=\"content\">")>>,
        <<Tpl("<div class=\"greeting\">")>>,
        <<Tpl("Hi "), Val("customerName", customer_name), Tpl(",")>>,
        <<Tpl("</div>")>>,
        <<>>,
        <<Tpl("<p>")>>,
        <<Tpl("We're excited to confirm that your order has been received and is being processed.")>>,
        <<Tpl("Here are the details of your purchase:")>>,
        <<Tpl("</p>")>>,
        <<>>,
        <<Tpl("<!-- Order Details -->")>>,
        <<Tpl("<div class=\"order-details\">")>>,
        <<Tpl("<h2> Order Details</h2>")>>,
        <<>>,
        <<Tpl("<div class=\"detail-row\">")>>,
        <<Tpl("<span class=\"detail-label\">Order ID:</span>")>>,
        <<Tpl("<span class=\"detail-value\">#"), Val("orderId", PyStr(order_id)), Tpl("</span>")>>,
        <<Tpl("</div>")>>,
        <<>>,
        <<Tpl("<div class=\"detail-row\">")>>,
        <<Tpl("<span class=\"detail-label\">Order Date:</span>")>>,
        <<Tpl("<span class=\"detail-value\">"), Val("orderDate", order_date), Tpl("</span>")>>,
        <<Tpl("</div>")>>,
        <<>>,
        <<Tpl("<div class=\"detail-row\">")>>,
        <<Tpl("<span class=\"detail-label\">Status:</span>")>>,
        <<Tpl("<span class=\"status-badge\">"), Val("orderStatus", PyStr(order_status)), Tpl("</span>")>>,
        <<Tpl("</div>")>>,
        <<>>,
        <<Tpl("<div class=\"detail-row\">")>>,
        <<Tpl("<span class=\"detail-label\">Product:</span>")>>,
        <<Tpl("<span class=\"detail-value\">"), Val("productName", product_name), Tpl("</span>")>>,
        <<Tpl("</div>")>>,
        <<>>,
        (IF product_description # <<>> THEN <<Tpl("<div class=\"detail-row\"><span class=\"detail-label\">Description:</span><span class=\"detail-value\">"), Val("productDescription", product_description), Tpl("</span></div>")>> ELSE <<>>),   \* line 282
        <<>>,
        <<Tpl("<div class=\"detail-row\">")>>,
        <<Tpl("<span class=\"detail-label\">Quantity:</span>")>>,
        <<Tpl("<span class=\"detail-value\">"), Val("quantity", PyStr(quantity)), Tpl("</span>")>>,
        <<Tpl("</div>")>>,
        <<>>,
        (IF Truthy(unit_price) THEN <<Tpl("<div class=\"detail-row\"><span class=\"detail-label\">Unit Price:</span><span class=\"detail-value\">$"), Val("unitPrice", format_price(unit_price)), Tpl("</span></div>")>> ELSE <<>>),   \* line 289
        <<>>,
        <<Tpl("<div class=\"detail-row\">")>>,
        <<Tpl("<span class=\"detail-label\">Total Amount:</span>")>>,
        <<Tpl("<span class=\"total-price\">$"), Val("totalPrice", format_price(total_price)), Tpl("</span>")>>,
        <<Tpl("</div>")>>,
        <<Tpl("</div>")>>,
        <<>>,
        <<Tpl("<!-- Next Steps -->")>>,
        <<Tpl("<div class=\"message\">")>>,
        <<Tpl("<strong> What's Next?</strong><br>")>>,
        <<Tpl("We'll send you another email with tracking information once your order ships.")>>,
        <<Tpl("Expected delivery: 3-5 business days.")>>,
        <<Tpl("</div>")>>,
        <<>>,
        <<Tpl("<center>")>>,
        <<Tpl("<a href=\"https://yourdomain.com/orders/"), Val("orderId", PyStr(order_id)), Tpl("\" class=\"button\">")>>,
        <<Tpl("Track Your Order")>>,
        <<Tpl("</a>")>>,
        <<Tpl("</center>")>>,
        <<>>,
        <<Tpl("<p>")>>,
        <<Tpl("If you have any questions about your order, please don't hesitate to contact our customer support team.")>>,
        <<Tpl("</p>")>>,
        <<Tpl("</div>")>>,
        <<>>,
        <<Tpl("<!-- Footer -->")>>,
        <<Tpl("<div class=\"footer\">")>>,
        <<Tpl("<p>")>>,
        <<Tpl("Need help? <a href=\"mailto:support@yourdomain.com\">Contact Support</a>")>>,
        <<Tpl("</p>")>>,
        <<Tpl("<p>")>>,
        <<Tpl("2024 Your Company. All rights reserved.")>>,
        <<Tpl("</p>")>>,
        <<Tpl("<p style=\"font-size: 12px; color: #adb5bd; margin-top: 10px;\">")>>,
        <<Tpl("This email was sent to "), Val("customerEmail", customer_email), Tpl(" because you placed an order.")>>,
        <<Tpl("</p>")>>,
        <<Tpl("</div>")>>,
        <<Tpl("</div>")>>,
        <<Tpl("</body>")>>,
        <<Tpl("</html>")>>
        , <<>> >>

generate_text_email(ev) ==
    LET order_id == Get(ev, "orderId", StrV(<<"N/A">>))
        customer_name == Get(ev, "customerName", StrV(<<"Customer">>))
        customer_email == Get(ev, "customerEmail", StrV(<<>>))
        product_name == Get(ev, "productName", StrV(<<"Product">>))
        product_description == Get(ev, "productDescription", StrV(<<>>))
        quantity == Get(ev, "quantity", IntV(1))
        unit_price == Get(ev, "unitPrice", None)
        total_price == Get(ev, "totalPrice", IntV(0))
        order_status == Get(ev, "orderStatus", StrV(<<"CONFIRMED">>))
        order_date == format_date(Get(ev, "orderDate", None))
    IN  <<
        <<>>,
        <<Tpl("ORDER CONFIRMATION")>>,
        <<Tpl("==================")>>,
        <<>>,
        <<Tpl("Hi "), Val("customerName", PyStr(customer_name)), Tpl(",")>>,
        <<>>,
        <<Tpl("Thank you for your order! We're excited to confirm that your order has been received and is being processed.")>>,
        <<>>,
        <<Tpl("ORDER DETAILS:")>>,
        <<Tpl("--------------")>>,
        <<Tpl("Order ID: #"), Val("orderId", PyStr(order_id))>>,
        <<Tpl("Order Date: "), Val("orderDate", order_date)>>,
        <<Tpl("Status: "), Val("orderStatus", PyStr(order_status))>>,
        <<>>,
        <<Tpl("PRODUCT DETAILS:")>>,
        <<Tpl("----------------")>>,
        <<Tpl("Product: "), Val("productName", PyStr(product_name))>>,
        (IF Truthy(product_description) THEN <<Tpl("Description: "), Val("productDescription", PyStr(product_description))>> ELSE <<>>),   \* line 378
        <<Tpl("Quantity: "), Val("quantity", PyStr(quantity))>>,
        (IF Truthy(unit_price) THEN <<Tpl("Unit Price: $"), Val("unitPrice", format_price(unit_price))>> ELSE <<>>),   \* line 380
        <<Tpl("Total Amount: $"), Val("totalPrice", format_price(total_price))>>,
        <<>>,
        <<Tpl("WHAT'S NEXT?")>>,
        <<Tpl("------------")>>,
        <<Tpl("We'll send you another email with tracking information once your order ships.")>>,
        <<Tpl("Expected delivery: 3-5 business days.")>>,
        <<>>,
        <<Tpl("Track your order: https://yourdomain.com/orders/"), Val("orderId", PyStr(order_id))>>,
        <<>>,
        <<Tpl("NEED HELP?")>>,
        <<Tpl("----------")>>,
        <<Tpl("If you have any questions about your order, please contact our customer support team at support@yourdomain.com")>>,
        <<>>,
        <<Tpl("2024 Your Company. All rights reserved.")>>,
        <<>>,
        <<Tpl("This email was sent to "), Val("customerEmail", PyStr(customer_email)), Tpl(" because you placed an order.")>>
        , <<>> >>

(* ------------------------- payloads and inputs ----------------------- *)

\* the most payload fields in which a drawn event departs from BaseEvent
MaxDeviations == 2

FieldNames ==
    <<"orderId", "customerEmail", "customerName", "productName", "productDescription",
      "quantity", "unitPrice", "totalPrice", "orderStatus", "orderDate">>

\* the event of the local test (lines 593-604), with short strings
BaseEvent ==
    [orderId |-> StrV(<<"7">>),
     customerEmail |-> StrV(<<"c", "@", "x">>),
     customerName |-> StrV(<<"T">>),
     productName |-> StrV(<<"P">>),
     productDescription |-> StrV(<<"d">>),
     quantity |-> IntV(2),
     unitPrice |-> FloatV(99990),
     totalPrice |-> FloatV(199980),
     orderStatus |-> StrV(<<"O", "K">>),
     orderDate |-> StrV(<<"2", "0", "2", "4", "-", "0", "1", "-", "3", "1", "T",
                          "1", "0", ":", "3", "0", ":", "0", "0">>)]

\* marks a key the event does not carry
NoKey == [t |-> "nokey"]

\* the other values each field takes: key absent, null, empty, text with
\* HTML metacharacters, and for the prices zero, a third decimal and strings
Alternatives ==
    [orderId |-> {NoKey, None, StrV(<<>>), StrV(<<"<", "&">>)},
     customerEmail |-> {NoKey, StrV(<<>>), StrV(<<"'", "@", ">">>)},
     customerName |-> {NoKey, None, StrV(<<"&", "l", "t", ";">>)},
     productName |-> {NoKey, StrV(<<>>), StrV(<<"<", ">">>)},
     productDescription |-> {NoKey, None, StrV(<<>>), StrV(<<"\"", "&">>)},
     quantity |-> {NoKey, StrV(<<"<">>)},
     unitPrice |-> {NoKey, None, IntV(0), FloatV(99989), StrV(<<"a">>), StrV(<<"9", ".", "5">>)},
     totalPrice |-> {NoKey, StrV(<<"a">>)},
     orderStatus |-> {NoKey, StrV(<<"<", "b", ">">>)},
     orderDate |-> {NoKey, StrV(<<"n", "o", "<">>),
                    StrV(<<"2", "0", "2", "4", "-", "0", "2", "-", "2", "9", "T",
                           "2", "2", ":", "0", "5", ":", "0", "0", "Z">>)}]

\* the dict d with key bound to v, or without the key when v is NoKey
WithField(d, key, v) == IF v = NoKey THEN d ELSE (key :> v) @@ d

RECURSIVE EventsUpTo(_, _)
\* the dicts over the first i fields that depart from BaseEvent in at most k of them
EventsUpTo(i, k) ==
    IF i = 0 THEN {<<>>}
    ELSE LET f == FieldNames[i]
         IN  {WithField(d, f, BaseEvent[f]) : d \in EventsUpTo(i - 1, k)}
               \cup (IF k = 0 THEN {}
                     ELSE UNION {{WithField(d, f, a) : d \in EventsUpTo(i - 1, k - 1)}
                                  : a \in Alternatives[f]})

Events == EventsUpTo(Len(FieldNames), MaxDeviations)

\* the context objects: the runtime's, which has function_name, and an
\* object without that attribute (a caller's stand-in)
Contexts == {[function_name |-> "send-order-email"], [aws_request_id |-> "r-1"]}

\* os.environ as the process finds it: each variable unset, empty or set
SenderEnv == {NoKey, StrV(<<>>), StrV(<<"s", "@", "x">>)}
ReplyToEnv == {NoKey, StrV(<<>>), StrV(<<"r", "@", "x">>)}

\* what SES answers: a message id, or the Error.Message of a ClientError;
\* and the text of a fault that is no ClientError (botocore's own errors)
MessageIds == {"0100-aaaa", "0100-bbbb"}
ProviderMessages == {"Email address is not verified.", "Maximum sending rate exceeded."}
FaultMessages == {"Could not connect to the endpoint URL"}

(* --------------------------- validate_event -------------------------- *)

required_fields_reordered == <<"customerEmail", "orderId", "customerName", "productName">>

required_fields == <<"orderId", "customerEmail", "customerName", "productName">>

RECURSIVE FirstMissingFrom(_, _)
\* the for loop of lines 130-132 from position i: the field it raises for, or ""
FirstMissingFrom(ev, i) ==
    IF i > Len(required_fields) THEN ""
    ELSE IF ~Truthy(Get(ev, required_fields[i], None)) THEN required_fields[i]
    ELSE FirstMissingFrom(ev, i + 1)

validate_event_no_sender_check(ev, sender) ==
    LET f == FirstMissingFrom(ev, 1)
    IN  IF f # "" THEN [raises |-> TRUE, msg |-> <<f, " is required">>]
        ELSE [raises |-> FALSE, msg |-> <<>>]

\* validate_event(event) with SENDER_EMAIL = sender: whether it raises
\* ValueError, and with which message
validate_event(ev, sender) ==
    LET f == FirstMissingFrom(ev, 1)
    IN  IF f # "" THEN [raises |-> TRUE, msg |-> <<f, " is required">>]
        ELSE IF ~Truthy(sender)
             THEN [raises |-> TRUE, msg |-> <<"SENDER_EMAIL environment variable is required">>]
        ELSE [raises |-> FALSE, msg |-> <<>>]

(* -------------------- send_order_confirmation_email ------------------ *)

build_email_params_always_reply_to(ev, sender, reply_to, html, text) ==
    [Source |-> sender,
     ToAddresses |-> <<Get(ev, "customerEmail", None)>>,
     Subject |-> <<"Order Confirmation - Order #">> \o PyStr(Get(ev, "orderId", None)),
     Html |-> html,
     Text |-> text,
     ReplyToAddresses |-> <<reply_to>>]

\* lines 164-192: the keyword arguments of ses_client.send_email
build_email_params(ev, sender, reply_to, html, text) ==
    LET email_params_0 ==
            [Source |-> sender,
             ToAddresses |-> <<Get(ev, "customerEmail", None)>>,
             Subject |-> <<"Order Confirmation - Order #">> \o PyStr(Get(ev, "orderId", None)),
             Html |-> html,
             Text |-> text]
    IN  IF Truthy(reply_to)
        THEN ("ReplyToAddresses" :> <<reply_to>>) @@ email_params_0
        ELSE email_params_0

(* --------------------------- lambda_handler -------------------------- *)

except_clause_generic_first(e) == IF e.type = "ValueError" THEN "ValueError" ELSE "Exception"

\* the except clause of lines 79-113 that catches e: the first, in program
\* order, whose class e is an instance of
except_clause(e) ==
    IF e.type = "ValueError" THEN "ValueError"
    ELSE IF e.type = "ClientError" THEN "ClientError"
    ELSE "Exception"

VARIABLES
    SENDER_EMAIL,    \* module global, line 30
    REPLY_TO_EMAIL,  \* module global, line 31
    event,           \* the handler's argument
    context,         \* the handler's argument
    pc,              \* where the invocation stands
    html_body,       \* send_order_confirmation_email's local, <<>> before rendering
    text_body,       \* send_order_confirmation_email's local, <<>> before rendering
    email_params,    \* send_order_confirmation_email's local, <<>> before it is built
    ses_calls,       \* the requests ses_client.send_email was called with, in order
    message_id,      \* the MessageId SES returned, "" before
    exc,             \* the exception this invocation raised, NoExc if none
    response         \* what lambda_handler returned, <<>> before

vars ==
    <<SENDER_EMAIL, REPLY_TO_EMAIL, event, context, pc, html_body, text_body,
      email_params, ses_calls, message_id, exc, response>>

NoExc == [type |-> "", msg |-> <<>>]

\* the module is imported: lines 30-31 read the environment once
Init ==
    /\ \E s \in SenderEnv : SENDER_EMAIL = (IF s = NoKey THEN None ELSE s)
    /\ \E r \in ReplyToEnv : REPLY_TO_EMAIL = (IF r = NoKey THEN StrV(<<>>) ELSE r)
    /\ event = <<>>
    /\ context = <<>>
    /\ pc = "idle"
    /\ html_body = <<>>
    /\ text_body = <<>>
    /\ email_params = <<>>
    /\ ses_calls = <<>>
    /\ message_id = ""
    /\ exc = NoExc
    /\ response = <<>>

\* the runtime calls lambda_handler(event, context).  A behaviour follows one
\* invocation: the handler writes no module global, so an invocation starts
\* from the state the import left, whatever ran before.
Invoke(e, c) ==
    /\ pc = "idle"
    /\ event' = e
    /\ context' = c
    /\ pc' = "entry"
    /\ UNCHANGED <<SENDER_EMAIL, REPLY_TO_EMAIL, html_body, text_body, email_params,
                   ses_calls, message_id, exc, response>>

\* lines 49-52, outside the try: context.function_name is read
LogEntry ==
    /\ pc = "entry"
    /\ IF "function_name" \in DOMAIN context
       THEN pc' = "try" /\ exc' = exc
       ELSE /\ pc' = "raised"
            /\ exc' = [type |-> "AttributeError",
                       msg |-> <<"object has no attribute 'function_name'">>]
    /\ UNCHANGED <<SENDER_EMAIL, REPLY_TO_EMAIL, event, context, html_body, text_body,
                   email_params, ses_calls, message_id, response>>

\* line 56
ValidateEvent ==
    /\ pc = "try"
    /\ LET v == validate_event(event, SENDER_EMAIL)
       IN  IF v.raises
           THEN pc' = "except" /\ exc' = [type |-> "ValueError", msg |-> v.msg]
           ELSE pc' = "render" /\ exc' = exc
    /\ UNCHANGED <<SENDER_EMAIL, REPLY_TO_EMAIL, event, context, html_body, text_body,
                   email_params, ses_calls, message_id, response>>

\* lines 65, 155-194: the two bodies are rendered and the request is built
GenerateContent ==
    /\ pc = "render"
    /\ html_body' = generate_html_email(event)
    /\ text_body' = generate_text_email(event)
    /\ email_params' = build_email_params(event, SENDER_EMAIL, REPLY_TO_EMAIL,
                                          html_body', text_body')
    /\ pc' = "send"
    /\ UNCHANGED <<SENDER_EMAIL, REPLY_TO_EMAIL, event, context, ses_calls, message_id,
                   exc, response>>

SesSendEmailClientErrorRetried(m) ==
    /\ pc = "send"
    /\ ses_calls' = Append(ses_calls, email_params)
    /\ IF Len(ses_calls) = 0
       THEN pc' = "send" /\ exc' = exc
       ELSE pc' = "except" /\ exc' = [type |-> "ClientError", msg |-> <<m>>]
    /\ UNCHANGED <<SENDER_EMAIL, REPLY_TO_EMAIL, event, context, html_body, text_body,
                   email_params, message_id, response>>

\* The remote call of line 197 has three outcomes: SES accepts and answers
\* with a MessageId, SES rejects (botocore raises ClientError), or the call
\* fails otherwise (botocore's own errors, which derive from Exception and
\* neither from ClientError nor from ValueError).

\* lines 197-199: ses_client.send_email(**email_params) answers with a MessageId
SesSendEmailOk(id) ==
    /\ pc = "send"
    /\ ses_calls' = Append(ses_calls, email_params)
    /\ message_id' = id
    /\ pc' = "sent"
    /\ UNCHANGED <<SENDER_EMAIL, REPLY_TO_EMAIL, event, context, html_body, text_body,
                   email_params, exc, response>>

\* line 197: SES rejects the request, botocore raises ClientError
SesSendEmailClientError(m) ==
    /\ pc = "send"
    /\ ses_calls' = Append(ses_calls, email_params)
    /\ exc' = [type |-> "ClientError", msg |-> <<m>>]
    /\ pc' = "except"
    /\ UNCHANGED <<SENDER_EMAIL, REPLY_TO_EMAIL, event, context, html_body, text_body,
                   email_params, message_id, response>>

\* line 197: the call fails with an exception that is no ClientError
SesSendEmailFault(m) ==
    /\ pc = "send"
    /\ ses_calls' = Append(ses_calls, email_params)
    /\ exc' = [type |-> "EndpointConnectionError", msg |-> <<m>>]
    /\ pc' = "except"
    /\ UNCHANGED <<SENDER_EMAIL, REPLY_TO_EMAIL, event, context, html_body, text_body,
                   email_params, message_id, response>>

\* lines 67-77; order_id is event.get('orderId') of line 59
ReturnSuccess ==
    /\ pc = "sent"
    /\ response' = [statusCode |-> 200,
                    body |-> [message |-> <<"Email sent successfully">>,
                              messageId |-> message_id,
                              orderId |-> Get(event, "orderId", None)]]
    /\ pc' = "returned"
    /\ UNCHANGED <<SENDER_EMAIL, REPLY_TO_EMAIL, event, context, html_body, text_body,
                   email_params, ses_calls, message_id, exc>>

\* lines 79-89
ExceptValueError ==
    /\ pc = "except"
    /\ except_clause(exc) = "ValueError"
    /\ response' = [statusCode |-> 400,
                    body |-> [error |-> <<"Validation error">>,
                              message |-> exc.msg,
                              orderId |-> Get(event, "orderId", StrV(<<"unknown">>))]]
    /\ pc' = "returned"
    /\ UNCHANGED <<SENDER_EMAIL, REPLY_TO_EMAIL, event, context, html_body, text_body,
                   email_params, ses_calls, message_id, exc>>

\* lines 91-101
ExceptClientError ==
    /\ pc = "except"
    /\ except_clause(exc) = "ClientError"
    /\ response' = [statusCode |-> 500,
                    body |-> [error |-> <<"SES error">>,
                              message |-> exc.msg,
                              orderId |-> Get(event, "orderId", StrV(<<"unknown">>))]]
    /\ pc' = "returned"
    /\ UNCHANGED <<SENDER_EMAIL, REPLY_TO_EMAIL, event, context, html_body, text_body,
                   email_params, ses_calls, message_id, exc>>

\* lines 103-113
ExceptException ==
    /\ pc = "except"
    /\ except_clause(exc) = "Exception"
    /\ response' = [statusCode |-> 500,
                    body |-> [error |-> <<"Internal server error">>,
                              message |-> exc.msg,
                              orderId |-> Get(event, "orderId", StrV(<<"unknown">>))]]
    /\ pc' = "returned"
    /\ UNCHANGED <<SENDER_EMAIL, REPLY_TO_EMAIL, event, context, html_body, text_body,
                   email_params, ses_calls, message_id, exc>>

Next ==
    \/ \E e \in Events, c \in Contexts : Invoke(e, c)
    \/ LogEntry
    \/ ValidateEvent
    \/ GenerateContent
    \/ \E id \in MessageIds : SesSendEmailOk(id)
    \/ \E m \in ProviderMessages : SesSendEmailClientError(m)
    \/ \E m \in FaultMessages : SesSendEmailFault(m)
    \/ ReturnSuccess
    \/ ExceptValueError
    \/ ExceptClientError
    \/ ExceptException

Spec == Init /\ [][Next]_vars

(* ------------------------------- claims ------------------------------ *)

\* a payload field that is absent, null or empty
IsMissing(f) == f \notin DOMAIN event \/ event[f] = None \/ event[f] = StrV(<<>>)

RequiredInOrder == <<"orderId", "customerEmail", "customerName", "productName">>

SomeRequiredMissing == \E i \in DOMAIN RequiredInOrder : IsMissing(RequiredInOrder[i])

SenderUnset == SENDER_EMAIL = None \/ SENDER_EMAIL = StrV(<<>>)

\* the invocation is past line 52 and inside, or through, the try statement
InTry == pc \in {"try", "render", "send", "sent", "except", "returned"}

\* the invocation is past validate_event without a ValueError
PastValidation == pc \in {"render", "send", "sent"}

\* C1: for a payload whose first absent, null or empty required field, in
\* the order orderId, customerEmail, customerName, productName, is f, the
\* invocation never gets past validation, the ValueError raised says
\* "<f> is required" whatever later fields are missing too, and the handler
\* returns 400, "Validation error", with that message.
C1_FirstMissingFieldNamed ==
    \A i \in DOMAIN RequiredInOrder :
        LET f == RequiredInOrder[i]
        IN  (/\ IsMissing(f)
             /\ \A j \in 1..(i - 1) : ~IsMissing(RequiredInOrder[j]))
            => /\ ~PastValidation
               /\ pc = "except" => exc = [type |-> "ValueError", msg |-> <<f, " is required">>]
               /\ pc = "returned" =>
                    /\ response.statusCode = 400
                    /\ response.body.error = <<"Validation error">>
                    /\ response.body.message = <<f, " is required">>

\* C1 witness: customerEmail and productName are both missing, orderId is
\* not, and the handler has returned 400 naming customerEmail
C1_Witness ==
    /\ pc = "returned"
    /\ ~IsMissing("orderId") /\ IsMissing("customerEmail") /\ IsMissing("productName")
    /\ response.statusCode = 400
    /\ response.body.message = <<"customerEmail", " is required">>

\* C2: an invocation whose payload lacks a required field, or whose sender
\* address is not configured, renders nothing, sends nothing and answers
\* 400; and an invocation that answered 400 is one of those and has made no
\* call to SES.
C2_ValidationFailureSendsNothing ==
    InTry =>
        /\ (SomeRequiredMissing \/ SenderUnset) =>
             /\ ~PastValidation
             /\ html_body = <<>> /\ text_body = <<>> /\ email_params = <<>>
             /\ ses_calls = <<>>
             /\ pc = "returned" => response.statusCode = 400
        /\ (pc = "returned" /\ response.statusCode = 400) =>
             /\ SomeRequiredMissing \/ SenderUnset
             /\ ses_calls = <<>> /\ html_body = <<>> /\ text_body = <<>>

\* C2 witness: a complete payload, no sender configured, 400 returned
C2_Witness ==
    /\ pc = "returned"
    /\ ~SomeRequiredMissing /\ SENDER_EMAIL = None
    /\ response.statusCode = 400
    /\ ses_calls = <<>>

\* C3: the handler never propagates a fault: every invocation that ends,
\* ends by returning a response whose statusCode is 200, 400 or 500.
C3_AlwaysReturnsResponse ==
    /\ pc # "raised"
    /\ pc = "returned" => response.statusCode \in {200, 400, 500}

\* C4: the response follows the outcome, in this precedence: a validation
\* failure gives 400 "Validation error"; else a ClientError of the send gives
\* 500 "SES error" with the provider's message; else any other fault gives
\* 500 "Internal server error"; else 200 "Email sent successfully".
C4_ResponseFollowsOutcome ==
    pc = "returned" =>
        /\ (SomeRequiredMissing \/ SenderUnset) <=> exc.type = "ValueError"
        /\ exc.type = "ValueError" =>
             /\ response.statusCode = 400
             /\ response.body.error = <<"Validation error">>
        /\ exc.type = "ClientError" =>
             /\ response.statusCode = 500
             /\ response.body.error = <<"SES error">>
             /\ \E m \in ProviderMessages : response.body.message = <<m>> /\ exc.msg = <<m>>
        /\ exc.type \notin {"", "ValueError", "ClientError"} =>
             /\ response.statusCode = 500
             /\ response.body.error = <<"Internal server error">>
             /\ response.body.message = exc.msg
        /\ exc = NoExc =>
             /\ response.statusCode = 200
             /\ response.body.message = <<"Email sent successfully">>

\* C4 witness: SES rejected the send and the handler answered "SES error"
C4_Witness ==
    /\ pc = "returned"
    /\ exc.type = "ClientError"
    /\ Len(ses_calls) = 1
    /\ response.body.error = <<"SES error">>

\* C5: SES is never called twice in one invocation; once a valid payload
\* with a configured sender is past the send, SES was called exactly once,
\* with the subject "Order Confirmation - Order #<orderId>", the one
\* recipient customerEmail and the configured sender; and when SES accepted,
\* the handler returns 200 with SES's MessageId and the payload's orderId.
C5_SentExactlyOnce ==
    /\ Len(ses_calls) <= 1
    /\ (InTry /\ ~SomeRequiredMissing /\ ~SenderUnset /\ pc \in {"sent", "except", "returned"}) =>
         /\ Len(ses_calls) = 1
         /\ ses_calls[1].Subject = <<"Order Confirmation - Order #">> \o event.orderId.s
         /\ ses_calls[1].ToAddresses = <<event.customerEmail>>
         /\ ses_calls[1].Source = SENDER_EMAIL
    /\ (pc = "returned" /\ message_id # "") =>
         /\ response.statusCode = 200
         /\ response.body.messageId = message_id
         /\ response.body.orderId = event.orderId
         /\ message_id \in MessageIds

\* C5 witness: the handler returned 200 after its one call to SES
C5_Witness ==
    /\ pc = "returned"
    /\ response.statusCode = 200
    /\ Len(ses_calls) = 1
    /\ response.body.messageId = message_id

\* every interpolated segment of a document
ValSegments(doc) ==
    {doc[i][j] : <<i, j>> \in {p \in (DOMAIN doc) \X (1..3) : p[2] \in DOMAIN doc[p[1]]}}

HtmlEntities ==
    {<<"&", "a", "m", "p", ";">>, <<"&", "l", "t", ";">>, <<"&", "g", "t", ";">>,
     <<"&", "q", "u", "o", "t", ";">>, <<"&", "#", "3", "9", ";">>}

\* s holds no bare < > " ' and every & in it opens one of the five entities
NoBareMetachar(s) ==
    \A i \in DOMAIN s :
        /\ s[i] \notin {"<", ">", "\"", "'"}
        /\ s[i] = "&" =>
             \E e \in HtmlEntities : i + Len(e) - 1 <= Len(s) /\ SubSeq(s, i, i + Len(e) - 1) = e

\* C6: in the HTML document of a validated request no text inserted from the
\* payload (orderId, orderStatus, quantity and the displayed orderDate among
\* it) holds an unescaped & < > " or '.
C6_HtmlValuesEscaped ==
    html_body # <<>> =>
        \A seg \in ValSegments(html_body) : seg.k = "val" => NoBareMetachar(seg.s)

\* C7: an error response carries the payload's orderId when the payload has
\* one, and "unknown" when the payload has none (the key absent, or null).
C7_ErrorBodyOrderId ==
    (pc = "returned" /\ response.statusCode \in {400, 500}) =>
        /\ ~IsMissing("orderId") => response.body.orderId = event.orderId
        /\ ("orderId" \notin DOMAIN event \/ event.orderId = None) =>
             response.body.orderId = StrV(<<"unknown">>)

\* C8: the request given to SES has the key ReplyToAddresses exactly when
\* REPLY_TO_EMAIL is not empty, and then it holds that address; the key is
\* never there with an empty address.
C8_ReplyToIffConfigured ==
    /\ email_params # <<>> =>
         /\ "ReplyToAddresses" \in DOMAIN email_params <=> REPLY_TO_EMAIL.s # <<>>
         /\ "ReplyToAddresses" \in DOMAIN email_params =>
              /\ email_params.ReplyToAddresses = <<REPLY_TO_EMAIL>>
              /\ email_params.ReplyToAddresses[1].s # <<>>
    /\ \A i \in DOMAIN ses_calls :
         "ReplyToAddresses" \in DOMAIN ses_calls[i] <=> REPLY_TO_EMAIL.s # <<>>

\* C8 witness: SES was called, no reply-to is configured, the request has no
\* such key
C8_Witness ==
    /\ Len(ses_calls) = 1
    /\ REPLY_TO_EMAIL = StrV(<<>>)
    /\ "ReplyToAddresses" \notin DOMAIN ses_calls[1]

\* the document has a line showing the given field
HasLineFor(doc, field) == \E seg \in ValSegments(doc) : seg.k = "val" /\ seg.f = field

\* the index of the text line that starts with the literal lit
LineStarting(doc, lit) == CHOOSE i \in DOMAIN doc : doc[i] # <<>> /\ doc[i][1] = Tpl(lit)

\* C9: without a unitPrice (absent or null) neither body has a unit-price
\* line, without a productDescription (absent or empty) neither has a
\* description line, with a non-empty description both have one, and an
\* omitted line leaves no blank line behind: the product details of the
\* text body run from "Product:" to "Total Amount:" without an empty line.
C9_OmittedLinesRemoved ==
    text_body # <<>> =>
        LET noPrice == "unitPrice" \notin DOMAIN event \/ event.unitPrice = None
            noDesc == "productDescription" \notin DOMAIN event
                        \/ event.productDescription = StrV(<<>>)
            hasDesc == "productDescription" \in DOMAIN event
                        /\ event.productDescription.t = "str"
                        /\ event.productDescription.s # <<>>
        IN  /\ noPrice => ~HasLineFor(html_body, "unitPrice") /\ ~HasLineFor(text_body, "unitPrice")
            /\ noDesc => /\ ~HasLineFor(html_body, "productDescription")
                         /\ ~HasLineFor(text_body, "productDescription")
            /\ hasDesc => /\ HasLineFor(html_body, "productDescription")
                          /\ HasLineFor(text_body, "productDescription")
            /\ \A i \in LineStarting(text_body, "Product: ")..LineStarting(text_body, "Total Amount: $") :
                 text_body[i] # <<>>

\* C10: a unitPrice that is present and not null, 0 included, is shown in
\* both bodies as its two-decimal price, and the two bodies agree on whether
\* they show a unit-price line.
C10_UnitPriceShownUnlessNull ==
    text_body # <<>> =>
        /\ HasLineFor(html_body, "unitPrice") <=> HasLineFor(text_body, "unitPrice")
        /\ ("unitPrice" \in DOMAIN event /\ event.unitPrice # None) =>
             /\ Val("unitPrice", format_price(event.unitPrice)) \in ValSegments(html_body)
             /\ Val("unitPrice", format_price(event.unitPrice)) \in ValSegments(text_body)

====
